---------------------------- MODULE Spec2Model ----------------------------
(***************************************************************************)
(* A model of financials.py, the Streamlit dashboard of the repository.    *)
(*                                                                         *)
(* Streamlit reruns the whole script on every interaction.  A rerun reads  *)
(* the multiselect (selected_leagues), at most one button is True in it,   *)
(* and st.session_state survives from one rerun to the next.  The state of *)
(* the model is therefore: the selection, the session store, the CSV files *)
(* on disk that pd.read_csv reads, and the page the last rerun rendered.   *)
(*                                                                         *)
(* A dict is the sequence of its <<key, value>> pairs in insertion order.  *)
(* A Python string is a TLA+ string; split, replace and + work on the      *)
(* sequence of its characters, which Spelling gives.  An exception ends    *)
(* the rerun where it is raised and is kept in the page.  The page record  *)
(* holds what the handlers compute; the fixed texts, the legends and the   *)
(* currency-formatted copy of the summary are left out of it.              *)
(***************************************************************************)
EXTENDS Integers, Sequences, FiniteSets, TLC

VARIABLES
    selected_leagues,   \* value of st.multiselect, in the order of selection
    session_state,      \* st.session_state: dict key_name -> DataFrame
    files,              \* the CSV files on disk: path -> data rows
    page                \* what the last rerun rendered

vars == <<selected_leagues, session_state, files, page>>

---------------------------------------------------------------------------
(* Bounds of the model.                                                    *)

\* the leagues of Spec, and the leagues whose file takes every content in
\* SpecSingle, are the first NumLeagues keys of league_files
NumLeagues == 2

\* most rows of a CSV file in SpecSingle
MaxRows == 2

---------------------------------------------------------------------------
(* The strings that the script takes apart or puts together, each with the *)
(* sequence of its characters.                                             *)

Spelling ==
    << <<"england_premier-league-2023-2024_financial_returns.csv",
         <<"e", "n", "g", "l", "a", "n", "d", "_", "p", "r", "e", "m", "i", "e", "r", "-", "l", "e", "a", "g", "u", "e", "-", "2", "0", "2", "3", "-", "2", "0", "2", "4", "_", "f", "i", "n", "a", "n", "c", "i", "a", "l", "_", "r", "e", "t", "u", "r", "n", "s", ".", "c", "s", "v">>>>,
       <<"england_championship-2023-2024_financial_returns.csv",
         <<"e", "n", "g", "l", "a", "n", "d", "_", "c", "h", "a", "m", "p", "i", "o", "n", "s", "h", "i", "p", "-", "2", "0", "2", "3", "-", "2", "0", "2", "4", "_", "f", "i", "n", "a", "n", "c", "i", "a", "l", "_", "r", "e", "t", "u", "r", "n", "s", ".", "c", "s", "v">>>>,
       <<"england_league-two-2023-2024_financial_returns.csv",
         <<"e", "n", "g", "l", "a", "n", "d", "_", "l", "e", "a", "g", "u", "e", "-", "t", "w", "o", "-", "2", "0", "2", "3", "-", "2", "0", "2", "4", "_", "f", "i", "n", "a", "n", "c", "i", "a", "l", "_", "r", "e", "t", "u", "r", "n", "s", ".", "c", "s", "v">>>>,
       <<"england_league-one-2023-2024_financial_returns.csv",
         <<"e", "n", "g", "l", "a", "n", "d", "_", "l", "e", "a", "g", "u", "e", "-", "o", "n", "e", "-", "2", "0", "2", "3", "-", "2", "0", "2", "4", "_", "f", "i", "n", "a", "n", "c", "i", "a", "l", "_", "r", "e", "t", "u", "r", "n", "s", ".", "c", "s", "v">>>>,
       <<"italy_serie-a-2023-2024_financial_returns.csv",
         <<"i", "t", "a", "l", "y", "_", "s", "e", "r", "i", "e", "-", "a", "-", "2", "0", "2", "3", "-", "2", "0", "2", "4", "_", "f", "i", "n", "a", "n", "c", "i", "a", "l", "_", "r", "e", "t", "u", "r", "n", "s", ".", "c", "s", "v">>>>,
       <<"spain_laliga-2023-2024_financial_returns.csv",
         <<"s", "p", "a", "i", "n", "_", "l", "a", "l", "i", "g", "a", "-", "2", "0", "2", "3", "-", "2", "0", "2", "4", "_", "f", "i", "n", "a", "n", "c", "i", "a", "l", "_", "r", "e", "t", "u", "r", "n", "s", ".", "c", "s", "v">>>>,
       <<"portugal_liga-portugal-2023-2024_financial_returns.csv",
         <<"p", "o", "r", "t", "u", "g", "a", "l", "_", "l", "i", "g", "a", "-", "p", "o", "r", "t", "u", "g", "a", "l", "-", "2", "0", "2", "3", "-", "2", "0", "2", "4", "_", "f", "i", "n", "a", "n", "c", "i", "a", "l", "_", "r", "e", "t", "u", "r", "n", "s", ".", "c", "s", "v">>>>,
       <<"france_ligue-1-2023-2024_financial_returns.csv",
         <<"f", "r", "a", "n", "c", "e", "_", "l", "i", "g", "u", "e", "-", "1", "-", "2", "0", "2", "3", "-", "2", "0", "2", "4", "_", "f", "i", "n", "a", "n", "c", "i", "a", "l", "_", "r", "e", "t", "u", "r", "n", "s", ".", "c", "s", "v">>>>,
       <<"poland_ekstraklasa-2023-2024_financial_returns.csv",
         <<"p", "o", "l", "a", "n", "d", "_", "e", "k", "s", "t", "r", "a", "k", "l", "a", "s", "a", "-", "2", "0", "2", "3", "-", "2", "0", "2", "4", "_", "f", "i", "n", "a", "n", "c", "i", "a", "l", "_", "r", "e", "t", "u", "r", "n", "s", ".", "c", "s", "v">>>>,
       <<"home_returns_running_total",
         <<"h", "o", "m", "e", "_", "r", "e", "t", "u", "r", "n", "s", "_", "r", "u", "n", "n", "i", "n", "g", "_", "t", "o", "t", "a", "l">>>>,
       <<"draw_returns_running_total",
         <<"d", "r", "a", "w", "_", "r", "e", "t", "u", "r", "n", "s", "_", "r", "u", "n", "n", "i", "n", "g", "_", "t", "o", "t", "a", "l">>>>,
       <<"away_returns_running_total",
         <<"a", "w", "a", "y", "_", "r", "e", "t", "u", "r", "n", "s", "_", "r", "u", "n", "n", "i", "n", "g", "_", "t", "o", "t", "a", "l">>>>,
       <<"first_choice_returns_running_total",
         <<"f", "i", "r", "s", "t", "_", "c", "h", "o", "i", "c", "e", "_", "r", "e", "t", "u", "r", "n", "s", "_", "r", "u", "n", "n", "i", "n", "g", "_", "t", "o", "t", "a", "l">>>>,
       <<"second_choice_returns_running_total",
         <<"s", "e", "c", "o", "n", "d", "_", "c", "h", "o", "i", "c", "e", "_", "r", "e", "t", "u", "r", "n", "s", "_", "r", "u", "n", "n", "i", "n", "g", "_", "t", "o", "t", "a", "l">>>>,
       <<"third_choice_returns_running_total",
         <<"t", "h", "i", "r", "d", "_", "c", "h", "o", "i", "c", "e", "_", "r", "e", "t", "u", "r", "n", "s", "_", "r", "u", "n", "n", "i", "n", "g", "_", "t", "o", "t", "a", "l">>>>,
       <<"random_choice_1_running_balance",
         <<"r", "a", "n", "d", "o", "m", "_", "c", "h", "o", "i", "c", "e", "_", "1", "_", "r", "u", "n", "n", "i", "n", "g", "_", "b", "a", "l", "a", "n", "c", "e">>>>,
       <<"home_returns_total",
         <<"h", "o", "m", "e", "_", "r", "e", "t", "u", "r", "n", "s", "_", "t", "o", "t", "a", "l">>>>,
       <<"draw_returns_total",
         <<"d", "r", "a", "w", "_", "r", "e", "t", "u", "r", "n", "s", "_", "t", "o", "t", "a", "l">>>>,
       <<"away_returns_total",
         <<"a", "w", "a", "y", "_", "r", "e", "t", "u", "r", "n", "s", "_", "t", "o", "t", "a", "l">>>>,
       <<"first_choice_returns_total",
         <<"f", "i", "r", "s", "t", "_", "c", "h", "o", "i", "c", "e", "_", "r", "e", "t", "u", "r", "n", "s", "_", "t", "o", "t", "a", "l">>>>,
       <<"second_choice_returns_total",
         <<"s", "e", "c", "o", "n", "d", "_", "c", "h", "o", "i", "c", "e", "_", "r", "e", "t", "u", "r", "n", "s", "_", "t", "o", "t", "a", "l">>>>,
       <<"third_choice_returns_total",
         <<"t", "h", "i", "r", "d", "_", "c", "h", "o", "i", "c", "e", "_", "r", "e", "t", "u", "r", "n", "s", "_", "t", "o", "t", "a", "l">>>>,
       <<"random_choice_1_total",
         <<"r", "a", "n", "d", "o", "m", "_", "c", "h", "o", "i", "c", "e", "_", "1", "_", "t", "o", "t", "a", "l">>>>,
       <<"_running_total",
         <<"_", "r", "u", "n", "n", "i", "n", "g", "_", "t", "o", "t", "a", "l">>>>,
       <<"_running_balance",
         <<"_", "r", "u", "n", "n", "i", "n", "g", "_", "b", "a", "l", "a", "n", "c", "e">>>>,
       <<"_total",
         <<"_", "t", "o", "t", "a", "l">>>>,
       <<"_financial_returns.csv",
         <<"_", "f", "i", "n", "a", "n", "c", "i", "a", "l", "_", "r", "e", "t", "u", "r", "n", "s", ".", "c", "s", "v">>>>,
       <<"-",
         <<"-">>>>,
       <<"",
         <<>>>>,
       <<"2023-2024",
         <<"2", "0", "2", "3", "-", "2", "0", "2", "4">>>> >>

\* the characters of a string of Spelling
chars(s) == Spelling[CHOOSE i \in DOMAIN Spelling : Spelling[i][1] = s][2]

\* the string of a sequence of characters; one that Spelling does not spell
\* is named by the text of its characters
str(cs) ==
    IF \E i \in DOMAIN Spelling : Spelling[i][2] = cs
    THEN Spelling[CHOOSE i \in DOMAIN Spelling : Spelling[i][2] = cs][1]
    ELSE ToString(cs)

---------------------------------------------------------------------------
(* The script's dicts.  The pound sign of the descriptions is written GBP. *)

league_files ==
    << <<"Premier League", "england_premier-league-2023-2024_financial_returns.csv">>,
       <<"Championship", "england_championship-2023-2024_financial_returns.csv">>,
       <<"League Two", "england_league-two-2023-2024_financial_returns.csv">>,
       <<"League One", "england_league-one-2023-2024_financial_returns.csv">>,
       <<"Serie A (Italy)", "italy_serie-a-2023-2024_financial_returns.csv">>,
       <<"La Liga (Spain)", "spain_laliga-2023-2024_financial_returns.csv">>,
       <<"Liga Portugal", "portugal_liga-portugal-2023-2024_financial_returns.csv">>,
       <<"Ligue 1 (France)", "france_ligue-1-2023-2024_financial_returns.csv">>,
       <<"Ekstraklasa (Poland)", "poland_ekstraklasa-2023-2024_financial_returns.csv">> >>

strategy_colors ==
    << <<"home_returns_running_total", "blue">>,
       <<"draw_returns_running_total", "orange">>,
       <<"away_returns_running_total", "green">>,
       <<"first_choice_returns_running_total", "purple">>,
       <<"second_choice_returns_running_total", "red">>,
       <<"third_choice_returns_running_total", "brown">>,
       <<"random_choice_1_running_balance", "magenta">> >>

label_dict ==
    << <<"home_returns_running_total", "GBP10 bet on every home win">>,
       <<"draw_returns_running_total", "GBP10 bet on every draw">>,
       <<"away_returns_running_total", "GBP10 bet on every away win">>,
       <<"first_choice_returns_running_total", "GBP10 on the favourite (lowest odds)">>,
       <<"second_choice_returns_running_total", "GBP10 on second favourite">>,
       <<"third_choice_returns_running_total", "GBP10 on Le Underdog (highest odds)">>,
       <<"random_choice_1_running_balance", "GBP10 random pick simulation">> >>

column_name_map ==
    << <<"home_returns_total", "GBP10 bet on every home win">>,
       <<"draw_returns_total", "GBP10 bet on every draw">>,
       <<"away_returns_total", "GBP10 bet on every away win">>,
       <<"first_choice_returns_total", "GBP10 on the favourite (lowest odds)">>,
       <<"second_choice_returns_total", "GBP10 on second favourite">>,
       <<"third_choice_returns_total", "GBP10 on Le Underdog (highest odds)">>,
       <<"random_choice_1_total", "GBP10 random pick simulation">> >>

---------------------------------------------------------------------------
(* Python's dict, str and list operations that the script uses.            *)

\* list(d.keys())
Keys(d) == [i \in DOMAIN d |-> d[i][1]]

\* k in d
HasKey(d, k) == \E i \in DOMAIN d : d[i][1] = k

\* d[k], for a key of d
Get(d, k) == d[CHOOSE i \in DOMAIN d : d[i][1] = k][2]

\* d.get(k, default)
GetOr(d, k, default) == IF HasKey(d, k) THEN Get(d, k) ELSE default

\* a faulty d[k] = v: the pair always goes to the end
DictAppend(d, k, v) == Append(d, <<k, v>>)

\* d[k] = v: a key of d keeps its place and takes the new value, a new key
\* goes to the end
DictSet(d, k, v) ==
    IF HasKey(d, k)
    THEN [i \in DOMAIN d |-> IF d[i][1] = k THEN <<k, v>> ELSE d[i]]
    ELSE Append(d, <<k, v>>)

\* s.replace(old, new) on characters: every non-overlapping occurrence of
\* old, left to right
RECURSIVE replace(_, _, _)
replace(s, old, new) ==
    IF Len(s) < Len(old) THEN s
    ELSE IF SubSeq(s, 1, Len(old)) = old
         THEN new \o replace(SubSeq(s, Len(old) + 1, Len(s)), old, new)
         ELSE <<Head(s)>> \o replace(Tail(s), old, new)

\* s.split(sep) on characters: the pieces of s between the occurrences of sep
RECURSIVE split(_, _)
split(s, sep) ==
    LET at == {i \in 1..(Len(s) - Len(sep) + 1) : SubSeq(s, i, i + Len(sep) - 1) = sep}
    IN  IF at = {} THEN <<s>>
        ELSE LET i == CHOOSE i \in at : \A j \in at : i <= j
             IN  <<SubSeq(s, 1, i - 1)>> \o split(SubSeq(s, i + Len(sep), Len(s)), sep)

\* xs[i] with Python's indices: 0 is the first element, -1 the last
PyIndex(xs, i) == IF i < 0 THEN xs[Len(xs) + i + 1] ELSE xs[i + 1]

\* whether xs[i] raises IndexError
IndexError(xs, i) == IF i < 0 THEN -i > Len(xs) ELSE i >= Len(xs)

\* max(d, key=d.get): the first key, in the dict's order, of a greatest value
RECURSIVE py_max_from(_, _, _)
py_max_from(d, i, best) ==
    IF i > Len(d) THEN d[best][1]
    ELSE py_max_from(d, i + 1, IF d[i][2] > d[best][2] THEN i ELSE best)

\* a faulty max: the last key of a greatest value
RECURSIVE py_max_last_from(_, _, _)
py_max_last_from(d, i, best) ==
    IF i > Len(d) THEN d[best][1]
    ELSE py_max_last_from(d, i + 1, IF d[i][2] >= d[best][2] THEN i ELSE best)

py_max_last(d) == py_max_last_from(d, 2, 1)

py_max(d) == py_max_from(d, 2, 1)

\* min(d, key=d.get): the first key, in the dict's order, of a least value
RECURSIVE py_min_from(_, _, _)
py_min_from(d, i, best) ==
    IF i > Len(d) THEN d[best][1]
    ELSE py_min_from(d, i + 1, IF d[i][2] < d[best][2] THEN i ELSE best)

py_min(d) == py_min_from(d, 2, 1)

---------------------------------------------------------------------------
(* pandas.  A DataFrame is its column names and its rows, a row being the  *)
(* tuple of its cells in the order of the columns.                         *)

\* the header of every CSV file: the seven strategy columns
csv_columns == Keys(strategy_colors)

\* pd.read_csv(file_path), for a file that exists
read_csv(file_path) == [columns |-> csv_columns, data |-> files[file_path]]

InsertAt(xs, loc, x) == SubSeq(xs, 1, loc) \o <<x>> \o SubSeq(xs, loc + 1, Len(xs))

\* df.insert(loc, column, value) with a scalar value
insert(df, loc, column, value) ==
    [columns |-> InsertAt(df.columns, loc, column),
     data    |-> [r \in DOMAIN df.data |-> InsertAt(df.data[r], loc, value)]]

\* df[col], a Series: the cells of column col in row order
Column(df, col) ==
    LET c == CHOOSE c \in DOMAIN df.columns : df.columns[c] = col
    IN  [r \in DOMAIN df.data |-> df.data[r][c]]

\* series.iloc[i]
iloc(series, i) == PyIndex(series, i)

\* df[cols].max().max()
frame_max(df, cols) ==
    LET cells == {Column(df, cols[c])[r] : c \in DOMAIN cols, r \in DOMAIN df.data}
    IN  CHOOSE m \in cells : \A x \in cells : x <= m

\* df[cols].min().min()
frame_min(df, cols) ==
    LET cells == {Column(df, cols[c])[r] : c \in DOMAIN cols, r \in DOMAIN df.data}
    IN  CHOOSE m \in cells : \A x \in cells : m <= x

---------------------------------------------------------------------------
(* The page a rerun renders.                                               *)

blank_page(button) ==
    [button |-> button,     \* the button that is True in the rerun
     messages |-> <<>>,     \* st.warning / st.info / st.success / st.caption
     error |-> "none",      \* the exception that ended the rerun
     reads |-> <<>>,        \* the paths given to pd.read_csv
     charts |-> <<>>,       \* the fixture-by-fixture charts
     summary_df |-> <<>>,   \* the rows of summary_df
     best_colors |-> <<>>,  \* bar colours of the best-return chart
     worst_colors |-> <<>>] \* bar colours of the worst-return chart

---------------------------------------------------------------------------
(* Load Data.                                                              *)

\* f"{league}_df"
key_of(league) == <<league, "_df">>

\* a faulty season: the suffix stays on the last segment
season_of_with_suffix(file_path) ==
    LET segments == split(chars(file_path), chars("-"))
    IN  str(PyIndex(segments, -2) \o chars("-") \o PyIndex(segments, -1))

\* the season of a file name
season_of(file_path) ==
    LET segments == split(chars(file_path), chars("-"))
    IN  str(PyIndex(segments, -2) \o chars("-")
                \o replace(PyIndex(segments, -1), chars("_financial_returns.csv"), chars("")))

\* season_of of the nine files of league_files, computed once
seasons == [i \in DOMAIN league_files |-> season_of(league_files[i][2])]

\* the season of a file of league_files
season(file_path) == seasons[CHOOSE i \in DOMAIN league_files : league_files[i][2] = file_path]

\* the loop over selected_leagues: every league's file is read, tagged and
\* stored before the next one is read; a file that cannot be read ends the
\* rerun there
RECURSIVE load_loop(_, _, _)
load_loop(leagues, state, reads) ==
    IF leagues = <<>> THEN [state |-> state, reads |-> reads, error |-> "none"]
    ELSE LET league == Head(leagues)
             file_path == Get(league_files, league)
         IN  IF file_path \notin DOMAIN files
             THEN [state |-> state, reads |-> Append(reads, file_path),
                   error |-> "FileNotFoundError"]
             ELSE LET df == insert(insert(read_csv(file_path), 0, "league_name", league),
                                   1, "season", season(file_path))
                  IN  load_loop(Tail(leagues), DictSet(state, key_of(league), df),
                                Append(reads, file_path))

\* a faulty branch: no guard on an empty selection
load_data_no_guard(leagues, state) ==
    LET r == load_loop(leagues, state, <<>>)
    IN  [state |-> r.state, reads |-> r.reads, error |-> r.error,
         messages |-> IF r.error = "none" THEN <<"info", "success">> ELSE <<"info">>]

\* a faulty branch: the store is written only when every file was read
load_data_atomic(leagues, state) ==
    IF leagues = <<>>
    THEN [state |-> state, reads |-> <<>>, error |-> "none", messages |-> <<"warning">>]
    ELSE LET r == load_loop(leagues, state, <<>>)
         IN  [state |-> IF r.error = "none" THEN r.state ELSE state,
              reads |-> r.reads, error |-> r.error,
              messages |-> IF r.error = "none" THEN <<"info", "success">> ELSE <<"info">>]

\* the branch of the Load Data button
load_data(leagues, state) ==
    IF leagues = <<>>
    THEN [state |-> state, reads |-> <<>>, error |-> "none", messages |-> <<"warning">>]
    ELSE LET r == load_loop(leagues, state, <<>>)
         IN  [state |-> r.state, reads |-> r.reads, error |-> r.error,
              messages |-> IF r.error = "none" THEN <<"info", "success">> ELSE <<"info">>]

LoadData ==
    LET r == load_data(selected_leagues, session_state)
    IN  /\ session_state' = r.state
        /\ page' = [blank_page("Load Data") EXCEPT
                        !.messages = r.messages, !.error = r.error, !.reads = r.reads]
        /\ UNCHANGED <<selected_leagues, files>>

---------------------------------------------------------------------------
(* View Financial Return Columns Plots.                                    *)

\* the chart of one league
chart_of(league, df) ==
    LET cols_to_plot == Keys(strategy_colors)
    IN  [league |-> league,
         season |-> iloc(Column(df, "season"), 0),
         ymax   |-> frame_max(df, cols_to_plot),
         ymin   |-> frame_min(df, cols_to_plot),
         xlim   |-> <<0, Len(df.data) - 1>>,
         colors |-> [c \in DOMAIN cols_to_plot |-> Get(strategy_colors, cols_to_plot[c])]]

\* the loop over selected_leagues: a league with no dataset in the store is
\* skipped; df.iloc[0] of a dataset with no rows raises IndexError
RECURSIVE plot_loop(_, _)
plot_loop(leagues, charts) ==
    IF leagues = <<>> THEN [charts |-> charts, error |-> "none"]
    ELSE LET league == Head(leagues)
             key_name == key_of(league)
         IN  IF ~HasKey(session_state, key_name)
             THEN plot_loop(Tail(leagues), charts)
             ELSE LET df == Get(session_state, key_name)
                  IN  IF IndexError(df.data, 0)
                      THEN [charts |-> charts, error |-> "IndexError"]
                      ELSE plot_loop(Tail(leagues), Append(charts, chart_of(league, df)))

ViewPlots ==
    LET r == plot_loop(selected_leagues, <<>>)
    IN  /\ page' = [blank_page("View Financial Return Columns Plots") EXCEPT
                        !.messages = <<"caption">>, !.error = r.error, !.charts = r.charts]
        /\ UNCHANGED <<selected_leagues, session_state, files>>

---------------------------------------------------------------------------
(* View Combined Best & Worst Returns.                                     *)

\* a faulty key: only "_running_total" is replaced
summary_name_total_only(col) ==
    str(replace(chars(col), chars("_running_total"), chars("_total")))

\* the key of final_values for a strategy column
summary_name(col) ==
    str(replace(replace(chars(col), chars("_running_total"), chars("_total")),
                chars("_running_balance"), chars("_total")))

\* summary_name of the seven keys of strategy_colors, computed once
summary_names == [c \in DOMAIN strategy_colors |-> summary_name(strategy_colors[c][1])]

\* a faulty final value: the first row's
final_value_first(df, col) == iloc(Column(df, col), 0)

\* the value of final_values for a strategy column
final_value(df, col) == iloc(Column(df, col), -1)

\* the dict comprehension over strategy_colors.keys()
RECURSIVE final_values_from(_, _, _)
final_values_from(df, c, acc) ==
    IF c > Len(strategy_colors) THEN acc
    ELSE final_values_from(df, c + 1,
                           DictSet(acc, summary_names[c], final_value(df, strategy_colors[c][1])))

final_values(df) == final_values_from(df, 1, <<>>)

\* the record appended to best_worst_records
best_worst_record(league, df) ==
    LET fv == final_values(df)
        best_col == py_max(fv)
        worst_col == py_min(fv)
    IN  [league_name |-> league,
         best_return |-> Get(fv, best_col),
         best_return_column |-> best_col,
         worst_return |-> Get(fv, worst_col),
         worst_return_column |-> worst_col]

\* a faulty loop: the dataset is read without asking whether the key is in
\* the store
RECURSIVE summary_loop_no_skip(_, _)
summary_loop_no_skip(leagues, records) ==
    IF leagues = <<>> THEN [records |-> records, error |-> "none"]
    ELSE LET league == Head(leagues)
             key_name == key_of(league)
         IN  IF ~HasKey(session_state, key_name)
             THEN [records |-> records, error |-> "KeyError"]
             ELSE LET df == Get(session_state, key_name)
                  IN  IF IndexError(df.data, -1)
                      THEN [records |-> records, error |-> "IndexError"]
                      ELSE summary_loop_no_skip(Tail(leagues),
                                                Append(records, best_worst_record(league, df)))

\* the loop over selected_leagues: a league with no dataset in the store is
\* skipped; .iloc[-1] of a dataset with no rows raises IndexError
RECURSIVE summary_loop(_, _)
summary_loop(leagues, records) ==
    IF leagues = <<>> THEN [records |-> records, error |-> "none"]
    ELSE LET league == Head(leagues)
             key_name == key_of(league)
         IN  IF ~HasKey(session_state, key_name)
             THEN summary_loop(Tail(leagues), records)
             ELSE LET df == Get(session_state, key_name)
                  IN  IF IndexError(df.data, -1)
                      THEN [records |-> records, error |-> "IndexError"]
                      ELSE summary_loop(Tail(leagues),
                                        Append(records, best_worst_record(league, df)))

\* summary_df with the two description columns: a name that is no key of
\* column_name_map maps to NaN
describe(records) ==
    [i \in DOMAIN records |->
        [league_name |-> records[i].league_name,
         best_return |-> records[i].best_return,
         best_return_column |-> records[i].best_return_column,
         worst_return |-> records[i].worst_return,
         worst_return_column |-> records[i].worst_return_column,
         best_return_column_desc |->
             GetOr(column_name_map, records[i].best_return_column, "NaN"),
         worst_return_column_desc |->
             GetOr(column_name_map, records[i].worst_return_column, "NaN")]]

\* the colour of a bar, from the name in best_return_column / worst_return_column
bar_color(x) ==
    GetOr(strategy_colors, str(replace(chars(x), chars("_total"), chars("_running_total"))),
          "grey")

\* bar_color of the seven names of summary_names, computed once
bar_colors == [c \in DOMAIN summary_names |-> bar_color(summary_names[c])]

\* the colour of the bar of a record
color_of(x) == bar_colors[CHOOSE c \in DOMAIN summary_names : summary_names[c] = x]

\* the branch of the button: pd.DataFrame of no records has no columns, and
\* summary_df['best_return_column'] then raises KeyError
combined(leagues) ==
    LET r == summary_loop(leagues, <<>>)
    IN  IF r.error # "none"
        THEN [error |-> r.error, summary_df |-> <<>>,
              best_colors |-> <<>>, worst_colors |-> <<>>]
        ELSE IF r.records = <<>>
        THEN [error |-> "KeyError", summary_df |-> <<>>,
              best_colors |-> <<>>, worst_colors |-> <<>>]
        ELSE [error |-> "none", summary_df |-> describe(r.records),
              best_colors |->
                  [i \in DOMAIN r.records |-> color_of(r.records[i].best_return_column)],
              worst_colors |->
                  [i \in DOMAIN r.records |-> color_of(r.records[i].worst_return_column)]]

ViewCombined ==
    LET r == combined(selected_leagues)
    IN  /\ page' = [blank_page("View Combined Best & Worst Returns") EXCEPT
                        !.messages = <<"caption">>, !.error = r.error,
                        !.summary_df = r.summary_df,
                        !.best_colors = r.best_colors, !.worst_colors = r.worst_colors]
        /\ UNCHANGED <<selected_leagues, session_state, files>>

---------------------------------------------------------------------------
(* The user and the file system.                                           *)

AllLeagues == {league_files[i][1] : i \in DOMAIN league_files}

\* the leagues of the multi-league sessions
Leagues == {league_files[i][1] : i \in 1..NumLeagues}

\* the example row of spec section 8, and a row whose greatest value is the
\* random pick's and whose least value is shared
ExampleRow == <<10, -5, 20, 0, 15, -20, 5>>

LateRow == <<0, 0, 0, 0, 0, 0, 1>>

\* file contents of the multi-league sessions: a header only, and two rows
SessionContents == {<<>>, <<ExampleRow, LateRow>>}

\* file contents of the single-league sessions: a header only, or up to
\* MaxRows rows of which the last is the example or any row of cells -1, 0, 1
AllRows == [1..7 -> {-1, 0, 1}] \cup {ExampleRow}

FullContents ==
    {<<>>} \cup {[i \in 1..n |-> ExampleRow] \o <<r>> : n \in 0..(MaxRows - 1), r \in AllRows}

\* the user adds a league to the multiselect, which appends it to the
\* selection: a rerun in which no button is True
SelectLeague ==
    /\ \E league \in Leagues :
           /\ \A i \in DOMAIN selected_leagues : selected_leagues[i] # league
           /\ selected_leagues' = Append(selected_leagues, league)
    /\ page' = blank_page("none")
    /\ UNCHANGED <<session_state, files>>

\* the user removes a league from the multiselect: a rerun in which no
\* button is True
DeselectLeague ==
    /\ \E i \in DOMAIN selected_leagues :
           selected_leagues' = SubSeq(selected_leagues, 1, i - 1)
                                   \o SubSeq(selected_leagues, i + 1, Len(selected_leagues))
    /\ page' = blank_page("none")
    /\ UNCHANGED <<session_state, files>>

\* a league's file is written (created or replaced) outside the dashboard
WriteFile ==
    /\ \E league \in Leagues, rows \in SessionContents :
           LET file_path == Get(league_files, league)
           IN  /\ file_path \in DOMAIN files => files[file_path] # rows
               /\ files' = [p \in DOMAIN files \cup {file_path} |->
                               IF p = file_path THEN rows ELSE files[p]]
    /\ UNCHANGED <<selected_leagues, session_state, page>>

\* a league's file is removed outside the dashboard
DeleteFile ==
    /\ \E file_path \in DOMAIN files :
           files' = [p \in DOMAIN files \ {file_path} |-> files[p]]
    /\ UNCHANGED <<selected_leagues, session_state, page>>

---------------------------------------------------------------------------
(* Spec: sessions over the first NumLeagues leagues, with the files        *)
(* changing under the dashboard.                                           *)

Init ==
    /\ selected_leagues = <<>>
    /\ session_state = <<>>
    /\ files \in [{Get(league_files, l) : l \in Leagues} -> SessionContents]
    /\ page = blank_page("none")

Next == SelectLeague \/ DeselectLeague \/ WriteFile \/ DeleteFile \/ LoadData \/ ViewPlots \/ ViewCombined

Spec == Init /\ [][Next]_vars

(* SpecSingle: sessions in which one league, any of the nine, stays        *)
(* selected and its file stays as it is.  The file of one of the first     *)
(* NumLeagues leagues has any content of FullContents.                     *)

InitSingle ==
    /\ \E league \in AllLeagues :
           \E rows \in IF league \in Leagues THEN FullContents ELSE SessionContents :
               /\ selected_leagues = <<league>>
               /\ files = [p \in {Get(league_files, league)} |-> rows]
    /\ session_state = <<>>
    /\ page = blank_page("none")

NextSingle == LoadData \/ ViewPlots \/ ViewCombined

SpecSingle == InitSingle /\ [][NextSingle]_vars

---------------------------------------------------------------------------
(* What the properties below read from a state, none of it through the     *)
(* operators of the handlers.                                              *)

\* whether a store holds a dataset of the league, and that dataset
LoadedIn(store, league) == \E i \in DOMAIN store : store[i][1] = <<league, "_df">>

DatasetIn(store, league) ==
    store[CHOOSE i \in DOMAIN store : store[i][1] = <<league, "_df">>][2]

Loaded(league) == LoadedIn(session_state, league)

DatasetOf(league) == DatasetIn(session_state, league)

\* the last-row value of the c-th strategy column of a dataset with rows
FinalCell(df, c) ==
    LET at == CHOOSE k \in DOMAIN df.columns : df.columns[k] = strategy_colors[c][1]
    IN  df.data[Len(df.data)][at]

Strategies == DOMAIN strategy_colors

\* the selected leagues that have a dataset, in selection order
RECURSIVE LoadedOf(_)
LoadedOf(leagues) ==
    IF leagues = <<>> THEN <<>>
    ELSE IF Loaded(Head(leagues)) THEN <<Head(leagues)>> \o LoadedOf(Tail(leagues))
         ELSE LoadedOf(Tail(leagues))

CombinedDone ==
    page.button = "View Combined Best & Worst Returns" /\ page.error = "none"

\* a step of the Load Data button: the only steps that end on the page of
\* that button without changing a file
LoadStep == page'.button = "Load Data" /\ files' = files

\* the dataset that a load stores for a league: the rows of its file, each
\* after the league name and the season
Tagged(league) ==
    [columns |-> <<"league_name", "season">> \o [c \in Strategies |-> strategy_colors[c][1]],
     data |-> [r \in DOMAIN files[Get(league_files, league)] |->
                  <<league, "2023-2024">> \o files[Get(league_files, league)][r]]]

---------------------------------------------------------------------------
(* The properties.                                                         *)

\* C1: when the combined view has rendered, every selected league whose
\* dataset has at least one row has a record whose best_return is the
\* greatest and whose worst_return is the least of the seven last-row
\* values, and whose best_return_column / worst_return_column name (by
\* their place in column_name_map) a column that has that value.
C1_BestWorstValues ==
    CombinedDone =>
        \A i \in DOMAIN selected_leagues :
            LET league == selected_leagues[i]
            IN  (Loaded(league) /\ Len(DatasetOf(league).data) >= 1) =>
                    \E k \in DOMAIN page.summary_df :
                        LET rec == page.summary_df[k]
                            df == DatasetOf(league)
                        IN  /\ rec.league_name = league
                            /\ \A c \in Strategies : FinalCell(df, c) <= rec.best_return
                            /\ \A c \in Strategies : FinalCell(df, c) >= rec.worst_return
                            /\ \E c \in Strategies :
                                   /\ FinalCell(df, c) = rec.best_return
                                   /\ column_name_map[c][1] = rec.best_return_column
                            /\ \E c \in Strategies :
                                   /\ FinalCell(df, c) = rec.worst_return
                                   /\ column_name_map[c][1] = rec.worst_return_column

\* C1's case: the example of spec section 8 as the last of two rows
C1_Witness ==
    /\ CombinedDone
    /\ Len(page.summary_df) = 1
    /\ Len(DatasetOf(page.summary_df[1].league_name).data) = 2
    /\ page.summary_df[1].best_return = 20
    /\ page.summary_df[1].best_return_column = "away_returns_total"
    /\ page.summary_df[1].worst_return = -20
    /\ page.summary_df[1].worst_return_column = "third_choice_returns_total"

\* C2: in every record of the combined view, best_return_column names the
\* earliest column, in the declaration order of the seven, that has the
\* greatest last-row value, and worst_return_column the earliest that has
\* the least.
C2_EarliestOnTies ==
    CombinedDone =>
        \A k \in DOMAIN page.summary_df :
            LET rec == page.summary_df[k]
                df == DatasetOf(rec.league_name)
                first_max == CHOOSE c \in Strategies :
                                 /\ \A e \in Strategies : FinalCell(df, e) <= FinalCell(df, c)
                                 /\ \A e \in 1..(c - 1) : FinalCell(df, e) < FinalCell(df, c)
                first_min == CHOOSE c \in Strategies :
                                 /\ \A e \in Strategies : FinalCell(df, e) >= FinalCell(df, c)
                                 /\ \A e \in 1..(c - 1) : FinalCell(df, e) > FinalCell(df, c)
            IN  /\ rec.best_return_column = column_name_map[first_max][1]
                /\ rec.worst_return_column = column_name_map[first_min][1]

\* C2's case: the draw and the second-choice columns share the greatest
\* value, the away and the random-pick columns the least
C2_Witness ==
    /\ CombinedDone
    /\ Len(page.summary_df) = 1
    /\ LET df == DatasetOf(page.summary_df[1].league_name)
       IN  [c \in Strategies |-> FinalCell(df, c)] = <<0, 1, -1, 0, 1, 0, -1>>
    /\ page.summary_df[1].best_return_column = "draw_returns_total"
    /\ page.summary_df[1].worst_return_column = "away_returns_total"

\* C8: the season that the loader derives from each of the nine file names
\* of league_files is "2023-2024", and it is the season of every row of
\* every dataset in the store and of every chart drawn from one.
C8_Season ==
    /\ \A i \in DOMAIN league_files : seasons[i] = "2023-2024"
    /\ \A i \in DOMAIN session_state :
           LET df == session_state[i][2]
           IN  /\ df.columns[2] = "season"
               /\ \A r \in DOMAIN df.data : df.data[r][2] = "2023-2024"
    /\ \A k \in DOMAIN page.charts : page.charts[k].season = "2023-2024"

\* C8's case: the last of the nine leagues is loaded with rows and charted
C8_Witness ==
    /\ Loaded("Ekstraklasa (Poland)")
    /\ Len(DatasetOf("Ekstraklasa (Poland)").data) = 2
    /\ DatasetOf("Ekstraklasa (Poland)").data[1][2] = "2023-2024"
    /\ Len(page.charts) = 1
    /\ page.charts[1].league = "Ekstraklasa (Poland)"
    /\ page.charts[1].season = "2023-2024"

\* C9: the seven names that the summarizer derives from the strategy
\* columns are distinct keys of column_name_map, each with the description
\* that label_dict gives the column it comes from; and every record of the
\* combined view carries, for its best and its worst column, the label_dict
\* description of a column that has that value, never a missing one.
C9_Descriptions ==
    /\ \A c \in Strategies :
           /\ \E k \in DOMAIN column_name_map :
                  /\ column_name_map[k][1] = summary_names[c]
                  /\ column_name_map[k][2] = label_dict[c][2]
           /\ label_dict[c][1] = strategy_colors[c][1]
           /\ \A e \in Strategies : summary_names[c] = summary_names[e] => c = e
    /\ CombinedDone =>
           \A k \in DOMAIN page.summary_df :
               LET rec == page.summary_df[k]
                   df == DatasetOf(rec.league_name)
               IN  /\ rec.best_return_column_desc # "NaN"
                   /\ rec.worst_return_column_desc # "NaN"
                   /\ \E c \in Strategies :
                          /\ FinalCell(df, c) = rec.best_return
                          /\ rec.best_return_column_desc = label_dict[c][2]
                   /\ \E c \in Strategies :
                          /\ FinalCell(df, c) = rec.worst_return
                          /\ rec.worst_return_column_desc = label_dict[c][2]

\* C9's case: the random pick alone is best, the home bet alone is worst
C9_Witness ==
    /\ CombinedDone
    /\ Len(page.summary_df) = 1
    /\ LET df == DatasetOf(page.summary_df[1].league_name)
       IN  [c \in Strategies |-> FinalCell(df, c)] = <<-1, 0, 0, 0, 0, 0, 1>>
    /\ page.summary_df[1].best_return_column = "random_choice_1_total"
    /\ page.summary_df[1].best_return_column_desc = "GBP10 random pick simulation"
    /\ page.summary_df[1].worst_return_column = "home_returns_total"
    /\ page.summary_df[1].worst_return_column_desc = "GBP10 bet on every home win"

\* C3 as stated: in the combined view every bar of the best-return chart
\* has the strategy_colors colour of the record's best strategy, and every
\* bar of the worst-return chart that of its worst strategy.
C3_BarColours ==
    CombinedDone =>
        \A k \in DOMAIN page.summary_df :
            /\ \E c \in Strategies :
                   /\ column_name_map[c][1] = page.summary_df[k].best_return_column
                   /\ page.best_colors[k] = strategy_colors[c][2]
            /\ \E c \in Strategies :
                   /\ column_name_map[c][1] = page.summary_df[k].worst_return_column
                   /\ page.worst_colors[k] = strategy_colors[c][2]

\* C4 as stated: the combined view of a selection of which no league has a
\* dataset ends without an error, with a summary of no records.
C4_EmptySummary ==
    (/\ page.button = "View Combined Best & Worst Returns"
     /\ \A i \in DOMAIN selected_leagues : ~Loaded(selected_leagues[i]))
        => (page.error = "none" /\ page.summary_df = <<>>)

\* what C5 is about: the plots or the combined view of a selection of which
\* some leagues have a dataset and some have none
C5_Case ==
    /\ page.button \in {"View Financial Return Columns Plots",
                        "View Combined Best & Worst Returns"}
    /\ \E i \in DOMAIN selected_leagues : Loaded(selected_leagues[i])
    /\ \E i \in DOMAIN selected_leagues : ~Loaded(selected_leagues[i])

\* the leagues of the charts or of the summary records, in page order
C5_Rendered ==
    IF page.button = "View Financial Return Columns Plots"
    THEN [k \in DOMAIN page.charts |-> page.charts[k].league]
    ELSE [k \in DOMAIN page.summary_df |-> page.summary_df[k].league_name]

C6_EmptySelectionLoad ==
    [][(LoadStep /\ selected_leagues = <<>>) =>
           /\ session_state' = session_state
           /\ page'.messages = <<"warning">>
           /\ page'.reads = <<>>
           /\ page'.error = "none"]_vars

\* C6's case: the click came with datasets in the store
C6_Witness ==
    /\ page.button = "Load Data"
    /\ selected_leagues = <<>>
    /\ page.messages = <<"warning">>
    /\ Len(session_state) = 2

\* no two entries of the store have the same key
StoreKeysDistinct ==
    \A i, j \in DOMAIN session_state :
        session_state[i][1] = session_state[j][1] => i = j

\* C7: the store never holds two datasets of one league, and a Load Data
\* click keeps every entry's key in its place and leaves the entries of the
\* leagues that are not selected as they were.
C7_OneDatasetPerLeague ==
    /\ []StoreKeysDistinct
    /\ [][LoadStep =>
             \A i \in DOMAIN session_state :
                 /\ i \in DOMAIN session_state'
                 /\ session_state'[i][1] = session_state[i][1]
                 /\ (\A k \in DOMAIN selected_leagues :
                         session_state[i][1] # <<selected_leagues[k], "_df">>)
                        => session_state'[i] = session_state[i]]_vars

\* C7's case: the last click loaded only the league whose dataset came
\* first into a store of two, so it loaded that league again
C7_Witness ==
    /\ page.button = "Load Data"
    /\ page.error = "none"
    /\ Len(selected_leagues) = 1
    /\ Len(session_state) = 2
    /\ session_state[1][1] = <<selected_leagues[1], "_df">>
    /\ DatasetOf(selected_leagues[1]) = Tagged(selected_leagues[1])

\* the selected leagues whose file is missing, by their place in the selection
C10_Missing ==
    {i \in DOMAIN selected_leagues : Get(league_files, selected_leagues[i]) \notin DOMAIN files}

\* how many of the selected leagues a Load Data click stores: those before
\* the first whose file is missing
C10_Stored ==
    IF C10_Missing = {} THEN Len(selected_leagues)
    ELSE (CHOOSE k \in C10_Missing : \A m \in C10_Missing : k <= m) - 1

\* C10: a Load Data click whose k-th file cannot be read ends in that error
\* with the first k-1 selected leagues' datasets stored as read, the k-th
\* and later leagues' entries and every other entry as they were; a click
\* with every file readable ends without an error and stores every selected
\* league.
C10_LoadOneByOne ==
    [][LoadStep =>
           /\ page'.error = IF C10_Missing = {} THEN "none" ELSE "FileNotFoundError"
           /\ \A i \in 1..C10_Stored :
                  /\ LoadedIn(session_state', selected_leagues[i])
                  /\ DatasetIn(session_state', selected_leagues[i]) = Tagged(selected_leagues[i])
           /\ \A i \in (C10_Stored + 1)..Len(selected_leagues) :
                  /\ LoadedIn(session_state', selected_leagues[i])
                         <=> LoadedIn(session_state, selected_leagues[i])
                  /\ LoadedIn(session_state, selected_leagues[i]) =>
                         DatasetIn(session_state', selected_leagues[i])
                             = DatasetIn(session_state, selected_leagues[i])
           /\ \A i \in DOMAIN session_state :
                  (\A k \in DOMAIN selected_leagues :
                       session_state[i][1] # <<selected_leagues[k], "_df">>)
                      => \E j \in DOMAIN session_state' : session_state'[j] = session_state[i]
           /\ Len(session_state') =
                  Len(session_state)
                      + Cardinality({i \in 1..C10_Stored :
                                         ~LoadedIn(session_state, selected_leagues[i])})]_vars

\* C10's case: of two selected leagues the second's file is missing; the
\* first is stored as read and the second has no entry
C10_Witness ==
    /\ page.button = "Load Data"
    /\ page.error = "FileNotFoundError"
    /\ Len(selected_leagues) = 2
    /\ Len(page.reads) = 2
    /\ Get(league_files, selected_leagues[1]) \in DOMAIN files
    /\ Loaded(selected_leagues[1])
    /\ DatasetOf(selected_leagues[1]) = Tagged(selected_leagues[1])
    /\ ~Loaded(selected_leagues[2])

===========================================================================
